---- MODULE Spec2Model ----
(***************************************************************************)
(* One run of Centreon.execute (nodes/Centreon/Centreon.node.ts): the      *)
(* login, the loop over the input items, the per-(resource, operation)     *)
(* handlers, the bulk apply-configuration fan-out and the helpers they     *)
(* use.  Every remote call and the server's answer to it is logged in      *)
(* `calls`.  Item parameters are read with getNodeParameter(name, i) when  *)
(* the loop reaches item i, so `items` holds the parameters of the items   *)
(* read so far; the number of input items is fixed from the start.         *)
(* Item and target indices are 1-based here (0-based in the source).       *)
(*                                                                         *)
(* Besides execute (Spec, SpecSession) the module holds one run of the     *)
(* options loader fetchFromCentreon against a listing endpoint             *)
(* (SpecLoader) and the pure helpers applied to drawn inputs               *)
(* (SpecHelpers): formatMacros, the request centreonRequest builds, and    *)
(* the service identifier written by getServices and read by the service   *)
(* handlers.                                                               *)
(***************************************************************************)
EXTENDS Integers, Sequences, FiniteSets, TLC

\* ---------------------------------------------------------------- bounds
MaxItems == 2       \* input items of one run: 0..MaxItems
MaxTargets == 2     \* monitoring servers of one bulk item: 0..MaxTargets
MaxSessionItems == 1 \* input items of a run that may be handed either token
MaxTotal == 4       \* records behind a listing endpoint: 0..MaxTotal
MaxPageSize == 2    \* largest page size a server caps the requested limit to
MaxMacros == 2      \* macros of one add request: 0..MaxMacros
MaxId == 11         \* host and service ids: -MaxId..MaxId

VARIABLES
  nItems,           \* items.length of this.getInputData()
  items,            \* parameters of the items read so far (item k at items[k])
  continueOnFail,   \* this.continueOnFail(): the node's continue-on-fail setting
  tz,               \* time zone of the process that runs the node
  pc,               \* "auth", "loop", "bulk", "returned", "thrown"
  token,            \* const token of execute
  i,                \* loop variable of execute
  returnData,       \* returnData of execute
  results,          \* results of the running executeMonitoringServerApplyConfiguration
  j,                \* position of that function's for..of loop
  calls,            \* every remote call issued so far, with the server's answer
  error,            \* what execute threw
  output,           \* what execute returned
  sessions,         \* the tokens the server's login may answer in this run
  credentials,      \* this.getCredentials('centreonApi') of the run: { ignoreSsl }
  listingEndpoint,  \* fetchFromCentreon: its endpoint argument
  page,             \* fetchFromCentreon: let page
  allItems,         \* fetchFromCentreon: const allItems
  options,          \* fetchFromCentreon: the options it returned
  collection,       \* the records the listing endpoint serves, in its order
  maxPageSize,      \* the largest page that server answers
  fn,               \* the helper about to be applied ("done" after the last)
  input,            \* its argument
  ret,              \* what it returned
  addressed         \* the endpoint a service handler built from the option

\* While fetchFromCentreon runs, pc ("login", "fetch", "returned", "thrown"),
\* token, calls and error are its own position, token, request log and error.
executeVars == <<nItems, items, continueOnFail, tz, i, returnData, results, j, output>>
loaderVars == <<listingEndpoint, page, allItems, options, collection, maxPageSize>>
helperVars == <<fn, input, ret, addressed>>

vars == <<nItems, items, continueOnFail, tz, pc, token, i, returnData, results,
          j, calls, error, output, sessions, credentials, loaderVars, helperVars>>

\* ------------------------------------------------------ dates and strings
\* A date-time string.  form "naive": 'YYYY-MM-DD hh:mm:ss' / 'YYYY-MM-DDThh:mm:ss'
\* showing clock reading t and no zone designator (what the dateTime field
\* holds); form "zoned": the same reading followed by 'Z'; form "invalid": a
\* string no Date can be made of, such as the parameter's default ''.
NaiveString(w) == [form |-> "naive", t |-> w]
ZonedString(w) == [form |-> "zoned", t |-> w]
InvalidString == [form |-> "invalid", t |-> 0]
NoString == [form |-> "none", t |-> 0]

\* The clock readings the date strings of the inputs show.
ClockReadings == {1, 2}
DateStrings == {NaiveString(w) : w \in ClockReadings} \cup {InvalidString}

\* A time zone: clocks are on UTC until, at reading 0, they are put forward by
\* `shift` readings (shift 0: plain UTC, no transition).
Zones == {[name |-> "UTC", shift |-> 0], [name |-> "DST", shift |-> 2]}

\* ECMAScript UTC(t): a local time skipped by the transition is read with the
\* offset before the transition, a later one with the offset after it.
LocalToUtc(zone, w) == IF w < zone.shift THEN w ELSE w - zone.shift

\* The time value of a Date object.
NaN == [nan |-> TRUE, ms |-> 0]
TimeValue(t) == [nan |-> FALSE, ms |-> t]

\* new Date(s): a string without zone designator is local time.
NewDate(s) ==
  CASE s.form = "naive" -> TimeValue(LocalToUtc(tz, s.t))
    [] s.form = "zoned" -> TimeValue(s.t)
    [] OTHER -> NaN

\* a >= b on two Date objects: both become numbers, NaN compares false.
DateGe(a, b) == ~a.nan /\ ~b.nan /\ a.ms >= b.ms

\* validateDateRange: TRUE iff it throws 'Start time must be before end time'.
validateDateRange(startTime, endTime) == DateGe(NewDate(startTime), NewDate(endTime))

\* toIsoUtc: new Date(datetime.replace(' ', 'T') + 'Z').toISOString() throws a
\* RangeError unless the string with 'Z' appended is a date.
toIsoUtcThrows(datetime) == datetime.form # "naive"
toIsoUtc(datetime) == ZonedString(datetime.t)

\* ----------------------------------------------------------- the inputs
Resources == {"host", "service", "monitoringServer"}
UnknownResource == "hostGroup"
UnknownOperation == "reboot"

DefaultIds == [defined |-> TRUE, ids |-> <<>>]
MissingIds == [defined |-> FALSE, ids |-> <<>>]

Item(resource, operation) ==
  [resource |-> resource, operation |-> operation,
   startTime |-> InvalidString, endTime |-> InvalidString,
   monitoringServerIds |-> DefaultIds, continueOnFail |-> FALSE]

DowntimeItems(resource) ==
  {[Item(resource, "downtime") EXCEPT !.startTime = s, !.endTime = e] :
     s \in DateStrings, e \in DateStrings}

\* The target lists of the inputs: n servers, listed highest id first.
TargetLists == {[k \in 1..n |-> MaxTargets + 1 - k] : n \in 0..MaxTargets}

\* The 'continueOnFail' parameter of applyConfiguration is part of the item.
ApplyItems(resource) ==
  {[Item(resource, "applyConfiguration") EXCEPT
      !.monitoringServerIds = [defined |-> TRUE, ids |-> l],
      !.continueOnFail = c] : l \in TargetLists \ {<<>>}, c \in BOOLEAN}
  \cup {[Item(resource, "applyConfiguration") EXCEPT
      !.monitoringServerIds = m] : m \in {DefaultIds, MissingIds}}

\* What getNodeParameter(name, i) may return for an item i of (resource,
\* operation); there is no item after the last.
ItemsOf(resource, operation) ==
  IF i > nItems THEN {}
  ELSE CASE operation = "downtime" /\ resource \in {"host", "service"} ->
              DowntimeItems(resource)
         [] operation = "applyConfiguration" /\ resource = "monitoringServer" ->
              ApplyItems(resource)
         [] OTHER -> {Item(resource, operation)}

\* -------------------------------------------------------------- records
Tokens == {"tokenA", "tokenB"}
NoToken == ""

NoMessage == [text |-> "", arg |-> "", call |-> 0]
\* error.message of a failed remote call: the upstream message of call n.
UpstreamMessage(n) == [text |-> "upstream", arg |-> "", call |-> n]
Message(text, arg) == [text |-> text, arg |-> arg, call |-> 0]

NoError == [name |-> "none", message |-> NoMessage]
NodeOperationError(text, arg) == [name |-> "NodeOperationError", message |-> Message(text, arg)]
RangeError == [name |-> "RangeError", message |-> Message("Invalid time value", "")]
RequestError(n) == [name |-> "RequestError", message |-> UpstreamMessage(n)]

\* One logged remote call: the request as sent and whether the server answered it.
Call(item, target, method, path, tok, start, end, reject, ok) ==
  [item |-> item, target |-> target, method |-> method, path |-> path,
   token |-> tok, start_time |-> start, end_time |-> end,
   rejectUnauthorized |-> reject, ok |-> ok]

\* An entry of returnData: a handler's payload (the body answered to call
\* `payload`), { error: message }, or the { results } of a bulk run.
PayloadEntry(n) == [shape |-> "payload", payload |-> n, error |-> NoMessage, results |-> <<>>]
ErrorEntry(m) == [shape |-> "error", payload |-> 0, error |-> m, results |-> <<>>]
BulkEntry(r) == [shape |-> "bulk", payload |-> 0, error |-> NoMessage, results |-> r]

\* An entry of the bulk run's results.
TargetSuccess(id, n) ==
  [monitoring_server_id |-> id, status |-> "success", result |-> n, error |-> NoMessage]
TargetError(id, m) ==
  [monitoring_server_id |-> id, status |-> "error", result |-> 0, error |-> m]

\* JavaScript values: undefined, a number, an object with the given keys.
Undefined == [type |-> "undefined", n |-> 0, keys |-> {}]
Number(n) == [type |-> "number", n |-> n, keys |-> {}]
Object(keys) == [type |-> "object", n |-> 0, keys |-> keys]

\* What a helper has returned, and the state before it returns.
Returned(v) == [returned |-> TRUE, value |-> v]
NotReturned == [returned |-> FALSE, value |-> <<>>]

\* The endpoint a service handler builds from its 'service' parameter.
NotAddressed ==
  [handler |-> "none", path |-> "", hostId |-> Undefined, serviceId |-> Undefined]

\* ----------------------------------------------------------- the state
\* No loader is running and no helper is under application.
LoaderIdle ==
  /\ listingEndpoint = ""
  /\ page = 0
  /\ allItems = <<>>
  /\ options = <<>>
  /\ collection = <<>>
  /\ maxPageSize = 0

HelpersIdle ==
  /\ fn = "none"
  /\ input = <<>>
  /\ ret = NotReturned
  /\ addressed = NotAddressed

\* execute has not started: no item, nothing read, nothing returned.
ExecuteIdle ==
  /\ nItems = 0
  /\ items = <<>>
  /\ continueOnFail = FALSE
  /\ tz = [name |-> "UTC", shift |-> 0]
  /\ i = 1
  /\ returnData = <<>>
  /\ results = <<>>
  /\ j = 0
  /\ output = <<>>

Init ==
  /\ nItems \in 0..MaxItems
  /\ sessions = {"tokenA"}
  /\ credentials = [ignoreSsl |-> FALSE]
  /\ LoaderIdle
  /\ HelpersIdle
  /\ items = <<>>
  /\ continueOnFail \in BOOLEAN
  /\ tz \in Zones
  /\ pc = "auth"
  /\ token = NoToken
  /\ i = 1
  /\ returnData = <<>>
  /\ results = <<>>
  /\ j = 0
  /\ calls = <<>>
  /\ error = NoError
  /\ output = <<>>

\* rejectUnauthorized of the requests: of the login of getAuthToken
\* (!creds.ignoreSsl), of centreonRequest (!ignoreSsl, the const of execute), of
\* both requests of fetchFromCentreon and of both requests of getServices.
\* Faulty variant: a request that never validates the certificate.
rejectUnauthorizedNever == FALSE
rejectUnauthorizedOfLogin == ~credentials.ignoreSsl
rejectUnauthorizedOfRequest == ~credentials.ignoreSsl
rejectUnauthorizedOfLoader == ~credentials.ignoreSsl
rejectUnauthorizedOfServices == ~credentials.ignoreSsl

\* Faulty variants: a catch block that absorbs whatever the setting, a bulk
\* loop that never continues, a bulk loop that always continues.
continueOnFailIgnored == TRUE
continueOnFailNever == FALSE
continueOnFailAlways == TRUE

\* this.continueOnFail() as read by the catch block of execute and by the catch
\* block of the bulk loop.
continueOnFailOfExecute == continueOnFail
continueOnFailOfBulk == continueOnFail

\* Faulty variant: a request that carries one fixed token.
centreonRequestFixedToken(tok, method, endpoint, target, start, end, ok) ==
  Call(i, target, method, endpoint, "tokenA", start, end, rejectUnauthorizedOfRequest, ok)

\* centreonRequest: the request it builds from (token, options), with the
\* server's answer.
centreonRequest(tok, method, endpoint, target, start, end, ok) ==
  Call(i, target, method, endpoint, tok, start, end, rejectUnauthorizedOfRequest, ok)

\* The loop body of execute reads the parameters of item i.
Read(it) ==
  /\ pc = "loop"
  /\ i <= nItems
  /\ items' = Append(items, it)
  /\ UNCHANGED <<nItems, continueOnFail, tz, token, sessions, credentials, loaderVars, helperVars>>

\* Faulty variant: the result is put at the front of returnData.
PushFront(entry) ==
  /\ returnData' = <<entry>> \o returnData
  /\ i' = i + 1
  /\ pc' = "loop"
  /\ UNCHANGED <<error, output>>

\* responseData !== undefined: returnData.push(responseData), next item.
Push(entry) ==
  /\ returnData' = Append(returnData, entry)
  /\ i' = i + 1
  /\ pc' = "loop"
  /\ UNCHANGED <<error, output>>

\* Faulty variant: a catch block that always rethrows.
CatchRethrows(err) ==
  /\ pc' = "thrown"
  /\ error' = err
  /\ UNCHANGED <<returnData, i, output>>

\* The catch block of execute.
Catch(err) ==
  IF continueOnFailOfExecute
    THEN /\ returnData' = Append(returnData, ErrorEntry(err.message))
         /\ i' = i + 1
         /\ pc' = "loop"
         /\ UNCHANGED <<error, output>>
    ELSE /\ pc' = "thrown"
         /\ error' = err
         /\ UNCHANGED <<returnData, i, output>>

\* Faulty variant: a handler whose failed request is sent a second time.
RequestRetried(method, endpoint, start, end) ==
  \E ok \in BOOLEAN, again \in BOOLEAN :
    LET n == Len(calls) + 1 IN
    /\ ok => again
    /\ IF ok
         THEN /\ calls' = Append(calls, centreonRequest(token, method, endpoint, 0, start,
                                                        end, TRUE))
              /\ Push(PayloadEntry(n))
         ELSE /\ calls' = calls \o
                   <<centreonRequest(token, method, endpoint, 0, start, end, FALSE),
                     centreonRequest(token, method, endpoint, 0, start, end, again)>>
              /\ IF again THEN Push(PayloadEntry(n + 1)) ELSE Catch(RequestError(n + 1))
    /\ UNCHANGED <<results, j>>

\* A handler that issues one request and returns its answer.
Request(method, endpoint, start, end) ==
  \E ok \in BOOLEAN :
    LET n == Len(calls) + 1 IN
    /\ calls' = Append(calls, centreonRequest(token, method, endpoint, 0, start, end, ok))
    /\ IF ok THEN Push(PayloadEntry(n)) ELSE Catch(RequestError(n))
    /\ UNCHANGED <<results, j>>

\* A handler that throws before any request.
Throw(err) ==
  /\ Catch(err)
  /\ UNCHANGED <<calls, results, j>>

\* Faulty variant: a login that is tried again after a transport failure.
getAuthTokenRetried ==
  /\ pc = "auth"
  /\ \E answer \in {"token", "failure"} :
       /\ calls' = Append(calls, Call(0, 0, "POST", "/login", NoToken, NoString,
                                      NoString, rejectUnauthorizedOfLogin,
                                      answer # "failure"))
       /\ IF answer = "token"
            THEN token' \in sessions /\ pc' = "loop" /\ UNCHANGED error
            ELSE IF Len(calls) = 0
              THEN UNCHANGED <<token, pc, error>>
              ELSE pc' = "thrown" /\ error' = RequestError(2) /\ UNCHANGED token
  /\ UNCHANGED <<nItems, items, continueOnFail, tz, i, returnData, results, j, output,
                 sessions, credentials, loaderVars, helperVars>>

\* Faulty variant: a login that returns whatever the response holds.
getAuthTokenUnchecked ==
  /\ pc = "auth"
  /\ \E answer \in {"token", "no token", "failure"} :
       /\ calls' = Append(calls, Call(0, 0, "POST", "/login", NoToken, NoString,
                                      NoString, rejectUnauthorizedOfLogin,
                                      answer # "failure"))
       /\ CASE answer = "token" ->
                 /\ token' \in sessions
                 /\ pc' = "loop"
                 /\ UNCHANGED error
            [] answer = "no token" ->
                 /\ pc' = "loop"
                 /\ UNCHANGED <<token, error>>
            [] OTHER ->
                 /\ pc' = "thrown"
                 /\ error' = RequestError(1)
                 /\ UNCHANGED token
  /\ UNCHANGED <<nItems, items, continueOnFail, tz, i, returnData, results, j, output,
                 sessions, credentials, loaderVars, helperVars>>

\* Faulty variant: a login inside the try block of the loop, whose failure is
\* recorded when continue-on-fail is on.
getAuthTokenCaught ==
  /\ pc = "auth"
  /\ \E answer \in {"token", "no token", "failure"} :
       LET err == IF answer = "no token"
                    THEN NodeOperationError("Authentication failed", "")
                    ELSE RequestError(1)
       IN
       /\ calls' = Append(calls, Call(0, 0, "POST", "/login", NoToken, NoString,
                                      NoString, rejectUnauthorizedOfLogin,
                                      answer # "failure"))
       /\ IF answer = "token"
            THEN /\ token' \in sessions
                 /\ pc' = "loop"
                 /\ UNCHANGED <<error, returnData>>
            ELSE IF continueOnFail
              THEN /\ returnData' = Append(returnData, ErrorEntry(err.message))
                   /\ pc' = "loop"
                   /\ UNCHANGED <<token, error>>
              ELSE /\ pc' = "thrown"
                   /\ error' = err
                   /\ UNCHANGED <<token, returnData>>
  /\ UNCHANGED <<nItems, items, continueOnFail, tz, i, results, j, output,
                 sessions, credentials, loaderVars, helperVars>>

getAuthToken ==
  /\ pc = "auth"
  /\ \E answer \in {"token", "no token", "failure"} :
       /\ calls' = Append(calls, Call(0, 0, "POST", "/login", NoToken, NoString,
                                      NoString, rejectUnauthorizedOfLogin,
                                      answer # "failure"))
       /\ CASE answer = "token" ->
                 /\ token' \in sessions
                 /\ pc' = "loop"
                 /\ UNCHANGED error
            [] answer = "no token" ->
                 /\ pc' = "thrown"
                 /\ error' = NodeOperationError("Authentication failed", "")
                 /\ UNCHANGED token
            [] OTHER ->
                 /\ pc' = "thrown"
                 /\ error' = RequestError(1)
                 /\ UNCHANGED token
  /\ UNCHANGED <<nItems, items, continueOnFail, tz, i, returnData, results, j, output,
                 sessions, credentials, loaderVars, helperVars>>

\* ------------------------------------------------------------ host
executeHostList ==
  \E it \in ItemsOf("host", "list") :
    Read(it) /\ Request("GET", "/monitoring/hosts", NoString, NoString)

executeHostAdd ==
  \E it \in ItemsOf("host", "add") :
    Read(it) /\ Request("POST", "/configuration/hosts", NoString, NoString)

\* Faulty variant: a dispatcher that sends 'delete' to the handler of 'add'.
executeHostDeleteAsAdd ==
  \E it \in ItemsOf("host", "delete") :
    Read(it) /\ Request("POST", "/configuration/hosts", NoString, NoString)

executeHostDelete ==
  \E it \in ItemsOf("host", "delete") :
    Read(it) /\ Request("DELETE", "/configuration/hosts/{hostId}", NoString, NoString)

executeHostAck ==
  \E it \in ItemsOf("host", "ack") :
    Read(it) /\ Request("POST", "/monitoring/hosts/{hostId}/acknowledgements",
                        NoString, NoString)

\* What both downtime handlers do with rawStart and rawEnd.
Downtime(it, endpoint) ==
  IF validateDateRange(it.startTime, it.endTime)
    THEN Throw(NodeOperationError("Start time must be before end time", ""))
    ELSE IF toIsoUtcThrows(it.startTime) \/ toIsoUtcThrows(it.endTime)
      THEN Throw(RangeError)
      ELSE Request("POST", endpoint, toIsoUtc(it.startTime), toIsoUtc(it.endTime))

executeHostDowntime ==
  \E it \in ItemsOf("host", "downtime") :
    Read(it) /\ Downtime(it, "/monitoring/hosts/{hostId}/downtimes")

executeHostOperationDefault ==
  \E it \in ItemsOf("host", UnknownOperation) :
    Read(it) /\ Throw(NodeOperationError("Unknown operation: ", it.operation))

executeHostOperation ==
  \/ executeHostList
  \/ executeHostAdd
  \/ executeHostDelete
  \/ executeHostAck
  \/ executeHostDowntime
  \/ executeHostOperationDefault

\* --------------------------------------------------------- service
executeServiceList ==
  \E it \in ItemsOf("service", "list") :
    Read(it) /\ Request("GET", "/monitoring/services", NoString, NoString)

executeServiceAdd ==
  \E it \in ItemsOf("service", "add") :
    Read(it) /\ Request("POST", "/configuration/services", NoString, NoString)

executeServiceDelete ==
  \E it \in ItemsOf("service", "delete") :
    Read(it) /\ Request("DELETE", "/configuration/services/{serviceId}", NoString, NoString)

executeServiceAck ==
  \E it \in ItemsOf("service", "ack") :
    Read(it) /\ Request("POST",
                        "/monitoring/hosts/{hostId}/services/{serviceId}/acknowledgements",
                        NoString, NoString)

executeServiceDowntime ==
  \E it \in ItemsOf("service", "downtime") :
    Read(it) /\ Downtime(it, "/monitoring/hosts/{hostId}/services/{serviceId}/downtimes")

executeServiceOperationDefault ==
  \E it \in ItemsOf("service", UnknownOperation) :
    Read(it) /\ Throw(NodeOperationError("Unknown operation: ", it.operation))

executeServiceOperation ==
  \/ executeServiceList
  \/ executeServiceAdd
  \/ executeServiceDelete
  \/ executeServiceAck
  \/ executeServiceDowntime
  \/ executeServiceOperationDefault

\* ----------------------------------------------- monitoring server
executeMonitoringServerList ==
  \E it \in ItemsOf("monitoringServer", "list") :
    Read(it) /\ Request("GET", "/configuration/monitoring-servers", NoString, NoString)

\* Faulty variant: the loop is entered without the check of the target list.
applyConfigurationUnchecked ==
  \E it \in ItemsOf("monitoringServer", "applyConfiguration") :
    /\ Read(it)
    /\ pc' = "bulk"
    /\ results' = <<>>
    /\ j' = 1
    /\ UNCHANGED <<returnData, i, calls, error, output>>

\* Faulty variant: a results list shared by the bulk runs of all items.
applyConfigurationStartShared ==
  \E it \in ItemsOf("monitoringServer", "applyConfiguration") :
    /\ Read(it)
    /\ IF ~it.monitoringServerIds.defined \/ Len(it.monitoringServerIds.ids) = 0
         THEN Throw(NodeOperationError("At least one monitoring server must be selected", ""))
         ELSE /\ pc' = "bulk"
              /\ j' = 1
              /\ UNCHANGED <<results, returnData, i, calls, error, output>>

\* executeMonitoringServerApplyConfiguration up to its loop: the check of the
\* target list.
applyConfigurationStart ==
  \E it \in ItemsOf("monitoringServer", "applyConfiguration") :
    /\ Read(it)
    /\ IF ~it.monitoringServerIds.defined \/ Len(it.monitoringServerIds.ids) = 0
         THEN Throw(NodeOperationError("At least one monitoring server must be selected", ""))
         ELSE /\ pc' = "bulk"
              /\ results' = <<>>
              /\ j' = 1
              /\ UNCHANGED <<returnData, i, calls, error, output>>

\* Faulty variant: the targets are called from the end of the list.
applyConfigurationTargetReversed ==
  /\ pc = "bulk"
  /\ j <= Len(items[i].monitoringServerIds.ids)
  /\ \E ok \in BOOLEAN :
       LET ids == items[i].monitoringServerIds.ids
           monitoringServerId == ids[Len(ids) + 1 - j]
           n == Len(calls) + 1
       IN
       /\ calls' = Append(calls,
            centreonRequest(token, "POST",
              "/configuration/monitoring-servers/{monitoringServerId}/generate-and-reload",
              monitoringServerId, NoString, NoString, ok))
       /\ IF ok
            THEN /\ results' = Append(results, TargetSuccess(monitoringServerId, n))
                 /\ j' = j + 1
                 /\ UNCHANGED <<pc, returnData, i, error, output>>
            ELSE /\ results' = Append(results,
                                      TargetError(monitoringServerId, UpstreamMessage(n)))
                 /\ IF ~continueOnFailOfBulk
                      THEN Catch(RequestError(n)) /\ UNCHANGED j
                      ELSE /\ j' = j + 1
                           /\ UNCHANGED <<pc, returnData, i, error, output>>
  /\ UNCHANGED <<nItems, items, continueOnFail, tz, token, sessions, credentials, loaderVars,
                 helperVars>>

\* Faulty variant: a loop that breaks at the first failure and returns the
\* records it has.
applyConfigurationTargetBreaks ==
  /\ pc = "bulk"
  /\ j <= Len(items[i].monitoringServerIds.ids)
  /\ \E ok \in BOOLEAN :
       LET monitoringServerId == items[i].monitoringServerIds.ids[j]
           n == Len(calls) + 1
       IN
       /\ calls' = Append(calls,
            centreonRequest(token, "POST",
              "/configuration/monitoring-servers/{monitoringServerId}/generate-and-reload",
              monitoringServerId, NoString, NoString, ok))
       /\ IF ok
            THEN /\ results' = Append(results, TargetSuccess(monitoringServerId, n))
                 /\ j' = j + 1
                 /\ UNCHANGED <<pc, returnData, i, error, output>>
            ELSE /\ results' = Append(results,
                                      TargetError(monitoringServerId, UpstreamMessage(n)))
                 /\ IF ~continueOnFailOfBulk
                      THEN Push(BulkEntry(results')) /\ UNCHANGED j
                      ELSE /\ j' = j + 1
                           /\ UNCHANGED <<pc, returnData, i, error, output>>
  /\ UNCHANGED <<nItems, items, continueOnFail, tz, token, sessions, credentials, loaderVars,
                 helperVars>>

\* Faulty variant: a loop that ends at the first failed target and returns the
\* records it has.
applyConfigurationTargetStops ==
  /\ pc = "bulk"
  /\ j <= Len(items[i].monitoringServerIds.ids)
  /\ \E ok \in BOOLEAN :
       LET monitoringServerId == items[i].monitoringServerIds.ids[j]
           n == Len(calls) + 1
       IN
       /\ calls' = Append(calls,
            centreonRequest(token, "POST",
              "/configuration/monitoring-servers/{monitoringServerId}/generate-and-reload",
              monitoringServerId, NoString, NoString, ok))
       /\ IF ok
            THEN /\ results' = Append(results, TargetSuccess(monitoringServerId, n))
                 /\ j' = j + 1
                 /\ UNCHANGED <<pc, returnData, i, error, output>>
            ELSE /\ results' = Append(results,
                                      TargetError(monitoringServerId, UpstreamMessage(n)))
                 /\ IF ~continueOnFailOfBulk
                      THEN Catch(RequestError(n)) /\ UNCHANGED j
                      ELSE /\ j' = Len(items[i].monitoringServerIds.ids) + 1
                           /\ UNCHANGED <<pc, returnData, i, error, output>>
  /\ UNCHANGED <<nItems, items, continueOnFail, tz, token, sessions, credentials, loaderVars,
                 helperVars>>

\* One iteration of its loop: the call for target j, the record pushed, and
\* the rethrow.
applyConfigurationTarget ==
  /\ pc = "bulk"
  /\ j <= Len(items[i].monitoringServerIds.ids)
  /\ \E ok \in BOOLEAN :
       LET monitoringServerId == items[i].monitoringServerIds.ids[j]
           n == Len(calls) + 1
       IN
       /\ calls' = Append(calls,
            centreonRequest(token, "POST",
              "/configuration/monitoring-servers/{monitoringServerId}/generate-and-reload",
              monitoringServerId, NoString, NoString, ok))
       /\ IF ok
            THEN /\ results' = Append(results, TargetSuccess(monitoringServerId, n))
                 /\ j' = j + 1
                 /\ UNCHANGED <<pc, returnData, i, error, output>>
            ELSE /\ results' = Append(results,
                                      TargetError(monitoringServerId, UpstreamMessage(n)))
                 /\ IF ~continueOnFailOfBulk
                      THEN Catch(RequestError(n)) /\ UNCHANGED j
                      ELSE /\ j' = j + 1
                           /\ UNCHANGED <<pc, returnData, i, error, output>>
  /\ UNCHANGED <<nItems, items, continueOnFail, tz, token, sessions, credentials, loaderVars,
                 helperVars>>

\* return { results }
applyConfigurationReturn ==
  /\ pc = "bulk"
  /\ j > Len(items[i].monitoringServerIds.ids)
  /\ Push(BulkEntry(results))
  /\ UNCHANGED <<nItems, items, continueOnFail, tz, token, results, j, calls,
                 sessions, credentials, loaderVars, helperVars>>

executeMonitoringServerOperationDefault ==
  \E it \in ItemsOf("monitoringServer", UnknownOperation) :
    Read(it) /\ Throw(NodeOperationError("Unknown operation: ", it.operation))

executeMonitoringServerOperation ==
  \/ executeMonitoringServerList
  \/ applyConfigurationStart
  \/ applyConfigurationTarget
  \/ applyConfigurationReturn
  \/ executeMonitoringServerOperationDefault

\* ---------------------------------------------------------- execute
\* A resource that is none of the three: no branch runs, responseData stays
\* undefined, nothing is pushed and nothing is thrown.
executeNoBranch ==
  \E it \in ItemsOf(UnknownResource, "list") :
    /\ Read(it)
    /\ i' = i + 1
    /\ UNCHANGED <<pc, returnData, results, j, calls, error, output>>

\* The end of the loop: returnData.map((d) => ({ json: d })).
executeReturn ==
  /\ pc = "loop"
  /\ i > nItems
  /\ output' = [k \in 1..Len(returnData) |-> [json |-> returnData[k]]]
  /\ pc' = "returned"
  /\ UNCHANGED <<nItems, items, continueOnFail, tz, token, i, returnData, results,
                 j, calls, error, sessions, credentials, loaderVars, helperVars>>

execute ==
  \/ getAuthToken
  \/ executeHostOperation
  \/ executeServiceOperation
  \/ executeMonitoringServerOperation
  \/ executeNoBranch
  \/ executeReturn

Next == execute

Spec == Init /\ [][Next]_vars

\* A run of at most MaxSessionItems items whose login may be answered with
\* either token.
InitSession ==
  /\ nItems \in 0..MaxSessionItems
  /\ sessions = Tokens
  /\ credentials \in [ignoreSsl : BOOLEAN]
  /\ LoaderIdle
  /\ HelpersIdle
  /\ items = <<>>
  /\ continueOnFail \in BOOLEAN
  /\ tz \in Zones
  /\ pc = "auth"
  /\ token = NoToken
  /\ i = 1
  /\ returnData = <<>>
  /\ results = <<>>
  /\ j = 0
  /\ calls = <<>>
  /\ error = NoError
  /\ output = <<>>

SpecSession == InitSession /\ [][Next]_vars

\* =================================================================
\* The options loader: fetchFromCentreon
\* =================================================================
\* const limit = 100
limit == 100

Min(a, b) == IF a <= b THEN a ELSE b

\* A record of a listing endpoint: { id, name }.
ListedRecord(k) == [id |-> k, name |-> <<"name", k>>]

\* The sizes of the collections served: a few records, one full page of the
\* loader, one record more than that.
Totals == (0..MaxTotal) \cup {limit, limit + 1}

\* A server answers pages of at most maxPageSize records: a small cap, or the
\* loader's limit taken as asked.
PageSizes == (1..MaxPageSize) \cup {limit}

\* meta.pagination of a response, and a response without it.
Pagination(t, q, l) == [present |-> TRUE, total |-> t, page |-> q, limit |-> l]
NoMeta == [present |-> FALSE, total |-> 0, page |-> 0, limit |-> 0]

NoQs == [page |-> 0, limit |-> 0]

\* One logged request of the loader with the server's answer.
ListingCall(method, path, tok, qs, reject, ok, meta, result) ==
  [method |-> method, path |-> path, token |-> tok, qs |-> qs,
   rejectUnauthorized |-> reject, ok |-> ok, meta |-> meta, result |-> result]

\* The page size the server applies to a request, and the records of page p.
AppliedLimit(qs) == Min(qs.limit, maxPageSize)
ServerPage(qs) ==
  LET from == (qs.page - 1) * AppliedLimit(qs) + 1
      to == Min(qs.page * AppliedLimit(qs), Len(collection))
  IN IF from <= to THEN SubSeq(collection, from, to) ELSE <<>>

\* What a server may put in meta.pagination when asked for qs: the true total
\* or a lower one, the page asked for or page 1 again, the page size applied.
Metas(qs) ==
  {NoMeta} \cup
  {Pagination(t, q, AppliedLimit(qs)) :
     t \in {Len(collection)} \cup (0..Min(1, Len(collection))),
     q \in {qs.page, 1}}

\* The records a server may answer: the page asked for, or none.
Results(qs) == {ServerPage(qs), <<>>}

\* The runs are cut after MaxFetches listing requests.
MaxFetches == MaxTotal + 1

\* allItems.map((item) => ({ name: item.name, value: item.id }))
OptionsOf(records) ==
  [k \in 1..Len(records) |-> [name |-> records[k].name, value |-> records[k].id]]

\* The server: a collection and a page-size cap.
InitLoader ==
  /\ collection \in {[k \in 1..n |-> ListedRecord(k)] : n \in Totals}
  /\ maxPageSize \in PageSizes
  /\ sessions = {"tokenA"}
  /\ credentials \in [ignoreSsl : BOOLEAN]
  /\ listingEndpoint = ""
  /\ page = 0
  /\ allItems = <<>>
  /\ options = <<>>
  /\ pc = "login"
  /\ token = NoToken
  /\ calls = <<>>
  /\ error = NoError
  /\ ExecuteIdle
  /\ HelpersIdle

\* Faulty variant: a loader that goes on with whatever the login answered.
fetchFromCentreonLoginUnchecked(path) ==
  /\ pc = "login"
  /\ listingEndpoint' = path
  /\ \E answer \in {"token", "no token", "failure"} :
       /\ calls' = Append(calls, ListingCall("POST", "/login", NoToken, NoQs,
                                             rejectUnauthorizedOfLoader,
                                             answer # "failure", NoMeta, <<>>))
       /\ CASE answer = "token" ->
                 /\ token' \in sessions
                 /\ pc' = "fetch"
                 /\ page' = 1
                 /\ UNCHANGED error
            [] answer = "no token" ->
                 /\ pc' = "fetch"
                 /\ page' = 1
                 /\ UNCHANGED <<token, error>>
            [] OTHER ->
                 /\ pc' = "thrown"
                 /\ error' = RequestError(1)
                 /\ UNCHANGED <<token, page>>
  /\ UNCHANGED <<allItems, options, collection, maxPageSize, sessions, credentials,
                 executeVars, helperVars>>

\* fetchFromCentreon up to its loop: the login and the check of the token.
fetchFromCentreonLogin(path) ==
  /\ pc = "login"
  /\ listingEndpoint' = path
  /\ \E answer \in {"token", "no token", "failure"} :
       /\ calls' = Append(calls, ListingCall("POST", "/login", NoToken, NoQs,
                                             rejectUnauthorizedOfLoader,
                                             answer # "failure", NoMeta, <<>>))
       /\ CASE answer = "token" ->
                 /\ token' \in sessions
                 /\ pc' = "fetch"
                 /\ page' = 1
                 /\ UNCHANGED error
            [] answer = "no token" ->
                 /\ pc' = "thrown"
                 /\ error' = NodeOperationError("Cannot authenticate to Centreon", "")
                 /\ UNCHANGED <<token, page>>
            [] OTHER ->
                 /\ pc' = "thrown"
                 /\ error' = RequestError(1)
                 /\ UNCHANGED <<token, page>>
  /\ UNCHANGED <<allItems, options, collection, maxPageSize, sessions, credentials, executeVars,
                 helperVars>>

\* Faulty variant: a stop test that asks for one page more when the last page
\* is full.
BreakStrict(meta) == ~meta.present \/ meta.page * meta.limit > meta.total

\* The stop test of the loop on the response's meta.pagination.
Break(meta) == ~meta.present \/ meta.page * meta.limit >= meta.total

\* Faulty variant: a loop that tests the stop condition before it keeps the
\* records of the page.
fetchFromCentreonPageBreaksFirst ==
  /\ pc = "fetch"
  /\ Len(calls) <= MaxFetches
  /\ LET qs == [page |-> page, limit |-> limit]
         n == Len(calls) + 1
     IN \E ok \in BOOLEAN :
          IF ~ok
            THEN /\ calls' = Append(calls, ListingCall("GET", listingEndpoint, token, qs,
                                                       rejectUnauthorizedOfLoader, FALSE, NoMeta, <<>>))
                 /\ pc' = "thrown"
                 /\ error' = RequestError(n)
                 /\ UNCHANGED <<page, allItems, options>>
            ELSE \E meta \in Metas(qs), result \in Results(qs) :
                   /\ calls' = Append(calls, ListingCall("GET", listingEndpoint, token, qs,
                                                         rejectUnauthorizedOfLoader, TRUE, meta, result))
                   /\ IF Break(meta)
                        THEN /\ options' = OptionsOf(allItems)
                             /\ pc' = "returned"
                             /\ UNCHANGED <<page, allItems>>
                        ELSE /\ allItems' = allItems \o result
                             /\ page' = page + 1
                             /\ UNCHANGED <<pc, options>>
                   /\ UNCHANGED error
  /\ UNCHANGED <<listingEndpoint, token, collection, maxPageSize, sessions, credentials, executeVars,
                 helperVars>>

\* One iteration of the loop, with the return that follows its break.
fetchFromCentreonPage ==
  /\ pc = "fetch"
  /\ Len(calls) <= MaxFetches
  /\ LET qs == [page |-> page, limit |-> limit]
         n == Len(calls) + 1
     IN \E ok \in BOOLEAN :
          IF ~ok
            THEN /\ calls' = Append(calls, ListingCall("GET", listingEndpoint, token, qs,
                                                       rejectUnauthorizedOfLoader, FALSE, NoMeta, <<>>))
                 /\ pc' = "thrown"
                 /\ error' = RequestError(n)
                 /\ UNCHANGED <<page, allItems, options>>
            ELSE \E meta \in Metas(qs), result \in Results(qs) :
                   /\ calls' = Append(calls, ListingCall("GET", listingEndpoint, token, qs,
                                                         rejectUnauthorizedOfLoader, TRUE, meta, result))
                   /\ allItems' = allItems \o result
                   /\ IF Break(meta)
                        THEN /\ options' = OptionsOf(allItems')
                             /\ pc' = "returned"
                             /\ UNCHANGED page
                        ELSE /\ page' = page + 1
                             /\ UNCHANGED <<pc, options>>
                   /\ UNCHANGED error
  /\ UNCHANGED <<listingEndpoint, token, collection, maxPageSize, sessions, credentials, executeVars,
                 helperVars>>

\* The loadOptions methods that call fetchFromCentreon.
getMonitoringServers == fetchFromCentreonLogin("/configuration/monitoring-servers")
getHostTemplates == fetchFromCentreonLogin("/configuration/hosts/templates")
getHostGroups == fetchFromCentreonLogin("/configuration/hosts/groups")
getHosts == fetchFromCentreonLogin("/configuration/hosts")
getServiceTemplates == fetchFromCentreonLogin("/configuration/services/templates")

fetchFromCentreon ==
  \/ getMonitoringServers
  \/ getHostTemplates
  \/ getHostGroups
  \/ getHosts
  \/ getServiceTemplates
  \/ fetchFromCentreonPage

NextLoader == fetchFromCentreon

SpecLoader == InitLoader /\ [][NextLoader]_vars

\* =================================================================
\* The helpers: formatMacros, centreonRequest, the service identifier
\* =================================================================
\* if (v): undefined and 0 are falsy, every object is truthy.
Truthy(v) ==
  CASE v.type = "undefined" -> FALSE
    [] v.type = "number" -> v.n # 0
    [] OTHER -> TRUE

\* a || b on strings: the empty string is falsy.
OrElse(a, b) == IF a # "" THEN a ELSE b

\* ---------------------------------------------------- formatMacros
\* Faulty variant: a formatMacros that keeps the first macro of each name.
RECURSIVE Deduped(_, _)
Deduped(macroItems, seen) ==
  IF macroItems = <<>> THEN <<>>
  ELSE LET m == Head(macroItems) IN
       IF m.name \in seen
         THEN Deduped(Tail(macroItems), seen)
         ELSE <<[name |-> m.name, value |-> m.value, is_password |-> m.isPassword,
                 description |-> m.description]>>
              \o Deduped(Tail(macroItems), seen \cup {m.name})
formatMacrosDeduped(macroItems) == Deduped(macroItems, {})

\* macroItems.map((m) => ({ name, value, is_password, description }))
formatMacros(macroItems) ==
  [k \in 1..Len(macroItems) |->
     [name |-> macroItems[k].name,
      value |-> macroItems[k].value,
      is_password |-> macroItems[k].isPassword,
      description |-> macroItems[k].description]]

\* The macros.macroValues parameter: lists of MacroItem.
MacroItems ==
  [name : {"MACRO_A", "MACRO_B"}, value : {"1"}, isPassword : BOOLEAN,
   description : {"", "text"}]
MacroLists == UNION {[1..n -> MacroItems] : n \in 0..MaxMacros}

\* const macros = formatMacros(macroItems)
applyFormatMacros ==
  /\ fn = "formatMacros"
  /\ ~ret.returned
  /\ ret' = Returned(formatMacros(input))
  /\ UNCHANGED <<fn, input, addressed>>
  /\ UNCHANGED <<pc, token, calls, error, sessions, credentials, executeVars, loaderVars>>

\* ------------------------------------------------- centreonRequest
\* creds.baseUrl: a URL followed by some slashes; replace(/\/+$/, '') drops them.
BaseUrl(slashes) == [url |-> "https://centreon.example", slashes |-> slashes]
StripTrailingSlashes(baseUrl) == [baseUrl EXCEPT !.slashes = 0]

\* Faulty variant: a request that never carries query parameters.
requestOptionsWithoutQs(creds, tok, opts, ignoreSsl, version) ==
  LET base == [method |-> opts.method,
               uri |-> [baseUrl |-> StripTrailingSlashes(creds.baseUrl),
                        version |-> version, endpoint |-> opts.endpoint],
               headers |-> ("Content-Type" :> "application/json")
                           @@ ("X-AUTH-TOKEN" :> tok),
               json |-> TRUE,
               rejectUnauthorized |-> ~ignoreSsl]
  IN IF Truthy(opts.body) THEN base @@ ("body" :> opts.body) ELSE base

\* const requestOptions of centreonRequest, as handed to this.helpers.request.
requestOptions(creds, tok, opts, ignoreSsl, version) ==
  LET base == [method |-> opts.method,
               uri |-> [baseUrl |-> StripTrailingSlashes(creds.baseUrl),
                        version |-> version, endpoint |-> opts.endpoint],
               headers |-> ("Content-Type" :> "application/json")
                           @@ ("X-AUTH-TOKEN" :> tok),
               json |-> TRUE,
               rejectUnauthorized |-> ~ignoreSsl]
      withBody == IF Truthy(opts.body) THEN base @@ ("body" :> opts.body) ELSE base
  IN IF Truthy(opts.params) THEN withBody @@ ("qs" :> opts.params) ELSE withBody

\* The arguments of centreonRequest: a CentreonRequestOptions whose optional
\* body and params are left out, empty ({}) or filled.
OptionalObjects == {Undefined, Object({}), Object({"comment"})}
RequestInputs ==
  [creds : [baseUrl : {BaseUrl(0), BaseUrl(2)}],
   token : Tokens,
   options : [method : {"GET", "POST"}, endpoint : {"/monitoring/hosts"},
              body : OptionalObjects, params : OptionalObjects],
   ignoreSsl : BOOLEAN,
   version : {"latest"}]

applyCentreonRequest ==
  /\ fn = "centreonRequest"
  /\ ~ret.returned
  /\ ret' = Returned(requestOptions(input.creds, input.token, input.options,
                                    input.ignoreSsl, input.version))
  /\ UNCHANGED <<fn, input, addressed>>
  /\ UNCHANGED <<pc, token, calls, error, sessions, credentials, executeVars, loaderVars>>

\* ------------------------------------------ the service identifier
\* JSON text is a sequence of characters; a member name and each of the
\* punctuation marks is one element of it, a number one element per character.
DigitChars == <<"0", "1", "2", "3", "4", "5", "6", "7", "8", "9">>
DigitValue(c) == CHOOSE d \in 0..9 : DigitChars[d + 1] = c
IsDigit(c) == \E d \in 0..9 : DigitChars[d + 1] = c

RECURSIVE DigitsOf(_)
DigitsOf(n) ==
  IF n < 10 THEN <<DigitChars[n + 1]>>
  ELSE Append(DigitsOf(n \div 10), DigitChars[(n % 10) + 1])

\* Faulty variant: a number written without its sign.
NumberToStringUnsigned(n) == DigitsOf(IF n < 0 THEN -n ELSE n)

\* JSON.stringify of an integer.
NumberToString(n) == IF n < 0 THEN <<"-">> \o DigitsOf(-n) ELSE DigitsOf(n)

\* JSON.stringify of an object given as its members in insertion order: a
\* member whose value is undefined is left out.
RECURSIVE StringifyMembers(_)
StringifyMembers(members) ==
  IF members = <<>> THEN <<>>
  ELSE LET m == Head(members)
           rest == StringifyMembers(Tail(members))
       IN IF m.value.type = "undefined" THEN rest
          ELSE <<"\"", m.key, "\"", ":">> \o NumberToString(m.value.n)
               \o (IF rest = <<>> THEN <<>> ELSE <<",">> \o rest)
JSONstringify(members) == <<"{">> \o StringifyMembers(members) \o <<"}">>

\* JSON.parse of a number starting at position p of the text.
RECURSIVE ParseDigits(_, _, _)
ParseDigits(text, p, acc) ==
  IF p <= Len(text) /\ IsDigit(text[p])
    THEN ParseDigits(text, p + 1, acc * 10 + DigitValue(text[p]))
    ELSE acc
ParseNumber(text, p) ==
  IF text[p] = "-" THEN 0 - ParseDigits(text, p + 1, 0) ELSE ParseDigits(text, p, 0)

\* JSON.parse(text)[key] for an object of numbers: undefined without the member.
JSONparseMember(text, key) ==
  LET at == {p \in 2..Len(text) - 3 :
               /\ text[p - 1] = "\""
               /\ text[p] = key
               /\ text[p + 1] = "\""
               /\ text[p + 2] = ":"}
  IN IF at = {} THEN Undefined
     ELSE Number(ParseNumber(text, (CHOOSE p \in at : TRUE) + 3))

\* An element of the result of GET /monitoring/services.
NoHost == [present |-> FALSE, id |-> 0, display_name |-> "", name |-> "", alias |-> ""]
Host(id, display) ==
  [present |-> TRUE, id |-> id, display_name |-> display, name |-> "web01", alias |-> ""]
Ids == (0 - MaxId)..MaxId
ServiceItems ==
  [id : Ids,
   host : {NoHost} \cup {Host(h, d) : h \in Ids, d \in {"", "Web"}},
   display_name : {"", "Ping"},
   description : {""}]

\* `Service ${serviceId}`, or a name as it stands.
ServiceName(text, n) == [text |-> text, n |-> n]

\* The callback of resp.result.map in getServices: one option per service.
ServiceOption(item) ==
  LET hostObj == IF item.host.present THEN item.host ELSE NoHost
      hostId == IF hostObj.present THEN Number(hostObj.id) ELSE Undefined
      hostName == OrElse(hostObj.display_name,
                    OrElse(hostObj.name, OrElse(hostObj.alias, "Unknown Host")))
      serviceId == item.id
      serviceName == IF item.display_name # "" THEN ServiceName(item.display_name, 0)
                     ELSE IF item.description # "" THEN ServiceName(item.description, 0)
                     ELSE ServiceName("Service ", serviceId)
  IN [name |-> [host |-> hostName, service |-> serviceName],
      value |-> JSONstringify(<<[key |-> "hostId", value |-> hostId],
                                [key |-> "serviceId", value |-> Number(serviceId)]>>)]

getServicesMap ==
  /\ fn = "getServices"
  /\ ~ret.returned
  /\ ret' = Returned(ServiceOption(input))
  /\ UNCHANGED <<fn, input, addressed>>
  /\ UNCHANGED <<pc, token, calls, error, sessions, credentials, executeVars, loaderVars>>

\* const { hostId, serviceId } = JSON.parse(serviceJson), and the endpoint.
executeServiceAckEndpoint(serviceJson) ==
  [handler |-> "executeServiceAck",
   path |-> "/monitoring/hosts/{hostId}/services/{serviceId}/acknowledgements",
   hostId |-> JSONparseMember(serviceJson, "hostId"),
   serviceId |-> JSONparseMember(serviceJson, "serviceId")]

executeServiceDowntimeEndpoint(serviceJson) ==
  [handler |-> "executeServiceDowntime",
   path |-> "/monitoring/hosts/{hostId}/services/{serviceId}/downtimes",
   hostId |-> JSONparseMember(serviceJson, "hostId"),
   serviceId |-> JSONparseMember(serviceJson, "serviceId")]

\* const { serviceId } = JSON.parse(serviceJson), and the endpoint.
executeServiceDeleteEndpoint(serviceJson) ==
  [handler |-> "executeServiceDelete",
   path |-> "/configuration/services/{serviceId}",
   hostId |-> Undefined,
   serviceId |-> JSONparseMember(serviceJson, "serviceId")]

\* The option is selected in the editor and a service handler reads it back.
selectService ==
  /\ fn = "getServices"
  /\ ret.returned
  /\ addressed.handler = "none"
  /\ addressed' \in {executeServiceAckEndpoint(ret.value.value),
                     executeServiceDowntimeEndpoint(ret.value.value),
                     executeServiceDeleteEndpoint(ret.value.value)}
  /\ UNCHANGED <<fn, input, ret>>
  /\ UNCHANGED <<pc, token, calls, error, sessions, credentials, executeVars, loaderVars>>

\* ------------------------------------------------ the list handlers
\* A parameter of the query string the list handlers append to the endpoint:
\* search=<the search object, JSON in URI encoding>, limit=<number>.
SearchParam(and) == [key |-> "search", and |-> and, n |-> 0]
LimitParam(n) == [key |-> "limit", and |-> <<>>, n |-> n]

\* A clause of $and: { [field]: { [op]: value } }; the value is a pattern or
\* an id.
Clause(field, op, pattern, id) == [field |-> field, op |-> op, pattern |-> pattern, id |-> id]

\* executeHostList: the endpoint and the parameters joined into its query string.
executeHostListEndpoint(filterName, lim) ==
  [path |-> "/monitoring/hosts",
   params |-> (IF filterName # ""
                 THEN <<SearchParam(<<Clause("host.name", "$lk", filterName, 0)>>)>>
                 ELSE <<>>)
              \o (IF lim # 0 THEN <<LimitParam(lim)>> ELSE <<>>)]

\* executeServiceList
executeServiceListEndpoint(filterName, hostId, lim) ==
  LET and == (IF filterName # ""
                THEN <<Clause("service.name", "$lk", filterName, 0)>> ELSE <<>>)
             \o (IF hostId # 0 THEN <<Clause("host.id", "$eq", "", hostId)>> ELSE <<>>)
  IN [path |-> "/monitoring/services",
      params |-> (IF Len(and) # 0 THEN <<SearchParam(and)>> ELSE <<>>)
                 \o (IF lim # 0 THEN <<LimitParam(lim)>> ELSE <<>>)]

\* executeMonitoringServerList reads the limit only.
executeMonitoringServerListEndpoint(lim) ==
  [path |-> "/configuration/monitoring-servers", params |-> <<LimitParam(lim)>>]

\* The parameters of a list item: the name pattern asked for ('' for none),
\* the host of a service list (0 standing for the falsy default ''), the limit.
ListInputs ==
  [resource : Resources, filterName : {"", "web%"}, hostId : {0, 7}, limit : {0, 1, 50}]

applyList ==
  /\ fn = "list"
  /\ ~ret.returned
  /\ ret' = Returned(
       CASE input.resource = "host" -> executeHostListEndpoint(input.filterName, input.limit)
         [] input.resource = "service" ->
              executeServiceListEndpoint(input.filterName, input.hostId, input.limit)
         [] OTHER -> executeMonitoringServerListEndpoint(input.limit))
  /\ UNCHANGED <<fn, input, addressed>>
  /\ UNCHANGED <<pc, token, calls, error, sessions, credentials, executeVars, loaderVars>>

\* One helper and its argument.
InitHelpers ==
  /\ \/ fn = "formatMacros" /\ input \in MacroLists
     \/ fn = "centreonRequest" /\ input \in RequestInputs
     \/ fn = "getServices" /\ input \in ServiceItems
     \/ fn = "list" /\ input \in ListInputs
  /\ ret = NotReturned
  /\ addressed = NotAddressed
  /\ pc = "idle"
  /\ token = NoToken
  /\ calls = <<>>
  /\ error = NoError
  /\ sessions = {"tokenA"}
  /\ credentials = [ignoreSsl |-> FALSE]
  /\ ExecuteIdle
  /\ LoaderIdle

NextHelpers ==
  \/ applyFormatMacros
  \/ applyCentreonRequest
  \/ getServicesMap
  \/ selectService
  \/ applyList

SpecHelpers == InitHelpers /\ [][NextHelpers]_vars

\* =================================================================
\* The options loader of services: getServices
\* =================================================================
\* qs: { limit: 500000 }
servicesLimit == 500000

NodeApiError(text) == [name |-> "NodeApiError", message |-> Message(text, "")]

\* The service the server holds at position k of GET /monitoring/services.
ServiceRecord(k) ==
  [id |-> k, host |-> Host(k, "Web"), display_name |-> "Ping", description |-> ""]
Services == [k \in 1..Len(collection) |-> ServiceRecord(k)]

\* What the server answers to a request without page: the first page, of the
\* page size it applies to the limit asked for.
ServicesPage(qs) == SubSeq(Services, 1, Min(Min(qs.limit, maxPageSize), Len(Services)))

\* One logged request of getServices with the server's answer; array: whether
\* resp.result is an array.
ServicesCall(method, path, tok, qs, reject, ok, array, result) ==
  [method |-> method, path |-> path, token |-> tok, qs |-> qs,
   rejectUnauthorized |-> reject, ok |-> ok, array |-> array, result |-> result]

\* getServices, step 2: the login; whatever its try block throws is wrapped.
getServicesAuthenticate ==
  /\ pc = "login"
  /\ listingEndpoint' = "/monitoring/services"
  /\ \E answer \in {"token", "no token", "failure"} :
       /\ calls' = Append(calls, ServicesCall("POST", "/login", NoToken, [limit |-> 0],
                                              rejectUnauthorizedOfServices,
                                              answer # "failure", FALSE, <<>>))
       /\ IF answer = "token"
            THEN /\ token' \in sessions
                 /\ pc' = "services"
                 /\ UNCHANGED error
            ELSE /\ pc' = "thrown"
                 /\ error' = NodeApiError("Failed to authenticate to Centreon")
                 /\ UNCHANGED token
  /\ UNCHANGED <<page, allItems, options, collection, maxPageSize, sessions, credentials,
                 executeVars, helperVars>>

\* getServices, steps 3 and 4: the single GET, the check of resp.result and
\* the map.
getServicesFetch ==
  /\ pc = "services"
  /\ LET qs == [limit |-> servicesLimit] IN
     \E answer \in {"array", "no array", "failure"}, result \in {ServicesPage(qs), <<>>} :
       /\ answer # "array" => result = <<>>
       /\ calls' = Append(calls, ServicesCall("GET", listingEndpoint, token, qs,
                                              rejectUnauthorizedOfServices,
                                              answer # "failure", answer = "array", result))
       /\ CASE answer = "array" ->
                 /\ options' = [k \in 1..Len(result) |-> ServiceOption(result[k])]
                 /\ pc' = "returned"
                 /\ UNCHANGED error
            [] answer = "no array" ->
                 /\ pc' = "thrown"
                 /\ error' = NodeOperationError(
                                "Unexpected response format: \"result\" is not an array", "")
                 /\ UNCHANGED options
            [] OTHER ->
                 /\ pc' = "thrown"
                 /\ error' = NodeApiError("Failed to fetch services")
                 /\ UNCHANGED options
  /\ UNCHANGED <<listingEndpoint, page, allItems, token, collection, maxPageSize, sessions,
                 credentials, executeVars, helperVars>>

getServices ==
  \/ getServicesAuthenticate
  \/ getServicesFetch

\* One invocation of a loadOptions method: fetchFromCentreon or getServices.
NextOptions ==
  \/ fetchFromCentreon
  \/ getServices

SpecOptions == InitLoader /\ [][NextOptions]_vars

\* One invocation of the node: execute, or a loadOptions method.
InitNode ==
  \/ InitSession
  \/ InitLoader

NextNode ==
  \/ execute
  \/ fetchFromCentreon
  \/ getServices

SpecNode == InitNode /\ [][NextNode]_vars

\* =================================================================
\* Properties
\* =================================================================
\* The indices, in order, of the calls issued for item k.
CallsOf(k) == SelectSeq([n \in 1..Len(calls) |-> n], LAMBDA n : calls[n].item = k)

IsDowntime(it) == it.resource \in {"host", "service"} /\ it.operation = "downtime"
IsApply(it) == it.resource = "monitoringServer" /\ it.operation = "applyConfiguration"
EmptyTargets(it) == ~it.monitoringServerIds.defined \/ it.monitoringServerIds.ids = <<>>

StartBeforeEnd == "Start time must be before end time"
NoServerSelected == "At least one monitoring server must be selected"

\* The handler of an item rejects its parameters.
ValidationFails(it) ==
  \/ IsDowntime(it) /\ validateDateRange(it.startTime, it.endTime)
  \/ IsApply(it) /\ EmptyTargets(it)
ValidationError(it) ==
  NodeOperationError(IF IsDowntime(it) THEN StartBeforeEnd ELSE NoServerSelected, "")

\* The handler of an item throws without issuing a call.
ThrowsAtOnce(it) ==
  \/ ValidationFails(it)
  \/ IsDowntime(it) /\ (toIsoUtcThrows(it.startTime) \/ toIsoUtcThrows(it.endTime))
  \/ it.resource \in Resources /\ it.operation = UnknownOperation

\* The handler of item k has failed: it threw at once, or a call of it failed
\* (for a target call of a bulk item: with the continue flag off).
ItemFailed(k) ==
  \/ ThrowsAtOnce(items[k])
  \/ \E n \in DOMAIN calls :
       calls[n].item = k /\ ~calls[n].ok /\ (calls[n].target = 0 \/ ~continueOnFail)

\* The message of that failure.
FailureMessage(k) ==
  IF ThrowsAtOnce(items[k])
    THEN CASE ValidationFails(items[k]) -> ValidationError(items[k]).message
           [] IsDowntime(items[k]) -> RangeError.message
           [] OTHER -> Message("Unknown operation: ", items[k].operation)
    ELSE UpstreamMessage(CallsOf(k)[Len(CallsOf(k))])

\* With continue-on-fail every item of a known resource pushes one entry: the
\* place of item k's entry in returnData.
Position(k) == Cardinality({m \in 1..k : items[m].resource \in Resources})

\* C1: with batch-level continue-on-fail disabled, once the handler of item k
\* has failed execute has thrown that item's error, has returned nothing, and
\* no item after k was read or called for.
C1_AbortOnFirstFailure ==
  ~continueOnFail =>
    \A k \in 1..Len(items) :
      ItemFailed(k) =>
        /\ pc = "thrown"
        /\ i = k
        /\ Len(items) = k
        /\ output = <<>>
        /\ \A n \in DOMAIN calls : calls[n].item <= k
        /\ error.message = FailureMessage(k)
        /\ IF ThrowsAtOnce(items[k])
             THEN CallsOf(k) = <<>>
             ELSE ~calls[Len(calls)].ok /\ calls[Len(calls)].item = k

\* C1 witness: the second of two items fails on its remote call after the first
\* one's payload was collected.
C1_Witness ==
  /\ ~continueOnFail
  /\ pc = "thrown"
  /\ nItems = 2
  /\ i = 2
  /\ Len(returnData) = 1
  /\ returnData[1].shape = "payload"
  /\ error.name = "RequestError"

\* C2: with batch-level continue-on-fail enabled, execute over N items returns
\* exactly N results, result k being item k's: its payload, its bulk result,
\* or an error record with its failure message.
C2_OneResultPerItem ==
  continueOnFail /\ pc = "returned" =>
    /\ Len(output) = nItems
    /\ \A k \in 1..nItems :
         k <= Len(output) =>
           LET d == output[k].json
               own == CallsOf(k)
           IN IF ItemFailed(k)
                THEN d = ErrorEntry(FailureMessage(k))
                ELSE IF IsApply(items[k])
                  THEN /\ d.shape = "bulk"
                       /\ Len(d.results) = Len(own)
                  ELSE d.shape = "payload" /\ own = <<d.payload>>

\* C3: the bulk fan-out obeys the item's own 'continueOnFail' parameter,
\* whatever the batch-level flag: with the parameter set a failed target does
\* not stop the run, with it unset the failed target is the item's last call
\* and, the batch-level flag being set, the item is recorded as an error.
C3_InnerFlagIndependent ==
  \A n \in DOMAIN calls :
    calls[n].target # 0 /\ ~calls[n].ok =>
      LET k == calls[n].item IN
      IF items[k].continueOnFail
        THEN ~(pc = "thrown" /\ error = RequestError(n))
        ELSE /\ \A m \in DOMAIN calls : calls[m].item = k => m <= n
             /\ continueOnFail =>
                  \E e \in DOMAIN returnData :
                    returnData[e] = ErrorEntry(UpstreamMessage(n))

\* C4 as stated: a validation failure is raised out of execute whatever the
\* continue-on-fail flag, and never becomes a recorded error result.
C4_ValidationAlwaysRaised ==
  \A k \in 1..Len(items) :
    ValidationFails(items[k]) =>
      /\ pc = "thrown"
      /\ i = k
      /\ error = ValidationError(items[k])

\* C4 as amended: a validation failure is thrown by the handler before any
\* call of its item; execute raises it when batch-level continue-on-fail is
\* off, and when it is on records it as that item's error result and goes on.
C4_ValidationFollowsFlag ==
  \A k \in 1..Len(items) :
    ValidationFails(items[k]) =>
      /\ CallsOf(k) = <<>>
      /\ IF continueOnFail
           THEN /\ pc # "thrown"
                /\ i > k
                /\ returnData[Position(k)] = ErrorEntry(ValidationError(items[k]).message)
           ELSE /\ pc = "thrown"
                /\ i = k
                /\ error = ValidationError(items[k])

\* C4 witness: with continue-on-fail on, a rejected downtime window is in the
\* returned results as an error record and a later item was still handled.
C4_Witness ==
  /\ continueOnFail
  /\ pc = "returned"
  /\ nItems = 2
  /\ IsDowntime(items[1])
  /\ ValidationFails(items[1])
  /\ output[1].json = ErrorEntry(Message(StartBeforeEnd, ""))
  /\ Len(output) = 2
  /\ output[2].json.shape = "payload"

\* C5: one run issues exactly one login call, as its first remote call.
C5_OneLoginFirst ==
  /\ pc = "auth" => calls = <<>>
  /\ pc # "auth" =>
       /\ Len(calls) >= 1
       /\ calls[1].path = "/login"
       /\ \A n \in DOMAIN calls : n > 1 => calls[n].path # "/login" /\ calls[n].item >= 1

\* C5 witness: a finished run with a failed item and a two-target bulk item.
C5_Witness ==
  /\ pc = "returned"
  /\ nItems = 2
  /\ Len(calls) = 4
  /\ ~calls[2].ok
  /\ calls[3].target # 0
  /\ calls[4].target # 0

\* The record the bulk run owes for a target call: success with the payload,
\* or error with the upstream message, tagged with the target's id.
TargetRecord(n) ==
  IF calls[n].ok
    THEN TargetSuccess(calls[n].target, n)
    ELSE TargetError(calls[n].target, UpstreamMessage(n))

C8_EmptyTargetsRejected ==
  \A k \in 1..Len(items) :
    IsApply(items[k]) /\ EmptyTargets(items[k]) =>
      /\ CallsOf(k) = <<>>
      /\ k = i => pc = "thrown" /\ error = NodeOperationError(NoServerSelected, "")
      /\ k < i => returnData[Position(k)] = ErrorEntry(Message(NoServerSelected, ""))

\* C8 witness: a run thrown by a bulk item with a missing target list.
C8_Witness ==
  /\ pc = "thrown"
  /\ Len(items) = i
  /\ IsApply(items[i])
  /\ ~items[i].monitoringServerIds.defined
  /\ error = NodeOperationError(NoServerSelected, "")

\* The start/end strings show UTC readings ('UTC start time'): start is
\* strictly before end as written.
StrictlyBefore(s, e) == s.form = "naive" /\ e.form = "naive" /\ s.t < e.t

\* C9: a downtime item whose start is not strictly before its end issues no
\* request, and every downtime request sent has start_time before end_time.
C9_DowntimeRequestsOrdered ==
  /\ \A k \in 1..Len(items) :
       IsDowntime(items[k]) /\ ~StrictlyBefore(items[k].startTime, items[k].endTime)
         => CallsOf(k) = <<>>
  /\ \A n \in DOMAIN calls :
       calls[n].start_time.form = "zoned" =>
         calls[n].start_time.t < calls[n].end_time.t

\* C10: on the start/end pair of every downtime item handled, validateDateRange
\* fails if and only if start is not strictly before end.
C10_ValidateIffNotBefore ==
  \A k \in 1..Len(items) :
    LET s == items[k].startTime
        e == items[k].endTime
    IN IsDowntime(items[k]) /\ s.form = "naive" /\ e.form = "naive" =>
         (validateDateRange(s, e) <=> ~StrictlyBefore(s, e))

\* The operation catalog: the (resource, operation) pairs that have a handler.
Catalog ==
  ({"host", "service"} \X {"list", "add", "delete", "ack", "downtime"})
  \cup ({"monitoringServer"} \X {"list", "applyConfiguration"})
OutsideCatalog(it) == <<it.resource, it.operation>> \notin Catalog
UnknownOperationError(it) == NodeOperationError("Unknown operation: ", it.operation)

\* C14: an item whose (resource, operation) pair is outside the catalog issues
\* no remote call and fails with the operation error naming its operation:
\* execute throws that error, or with continue-on-fail records it as the
\* item's result.
C14_UnknownPairFails ==
  \A k \in 1..Len(items) :
    OutsideCatalog(items[k]) =>
      /\ CallsOf(k) = <<>>
      /\ IF continueOnFail
           THEN \E e \in DOMAIN returnData :
                  /\ returnData[e] = ErrorEntry(UnknownOperationError(items[k]).message)
                  /\ items[k].resource \in Resources => e = Position(k)
           ELSE /\ pc = "thrown"
                /\ i = k
                /\ error = UnknownOperationError(items[k])

\* C16: once the login was answered without a token, execute has thrown the
\* authentication error, the login is the only call issued, no item was read
\* and nothing was collected or returned.
C16_NoTokenAborts ==
  pc # "auth" /\ calls[1].ok /\ token = NoToken =>
    /\ pc = "thrown"
    /\ error = NodeOperationError("Authentication failed", "")
    /\ Len(calls) = 1
    /\ items = <<>>
    /\ returnData = <<>>
    /\ output = <<>>

\* C16 witness: a run over two items thrown by a login answered without token.
C16_Witness ==
  /\ pc = "thrown"
  /\ nItems = 2
  /\ Len(calls) = 1
  /\ calls[1].ok
  /\ token = NoToken
  /\ error.message.text = "Authentication failed"

\* C17: the token is written by the login only and never changes afterwards,
\* and every request after the login, for an item or for a bulk target,
\* carries in its token header the token the login returned.
C17_TokenWrittenOnce ==
  /\ [](\A n \in DOMAIN calls :
          n > 1 => calls[n].token = token /\ token \in sessions)
  /\ [][(pc = "auth" /\ token = NoToken) \/ token' = token]_vars

\* C17 witness: the login answered the second token and a bulk item has sent
\* it to two targets.
C17_Witness ==
  /\ pc = "returned"
  /\ token = "tokenB"
  /\ Len(calls) = 3
  /\ calls[2].target # 0 /\ calls[2].token = "tokenB"
  /\ calls[3].target # 0 /\ calls[3].token = "tokenB"

\* C18: the calls are issued one after the other in input order: after the
\* login the item of each call is the item being handled or one handled
\* before, never lower than the item of the call before it; an item other
\* than a bulk one has at most one call, and the calls of a bulk item go to
\* its targets one at a time in list order.
C18_Sequential ==
  /\ i - 1 <= Len(items) /\ Len(items) <= i /\ Len(items) <= nItems
  /\ \A n \in DOMAIN calls :
       n > 1 =>
         /\ calls[n].item \in 1..Len(items)
         /\ calls[n - 1].item <= calls[n].item
  /\ \A k \in 1..Len(items) :
       LET own == CallsOf(k) IN
       /\ \A m \in 1..Len(own) : m > 1 => own[m] = own[m - 1] + 1
       /\ IF IsApply(items[k])
            THEN /\ Len(own) <= Len(items[k].monitoringServerIds.ids)
                 /\ \A m \in 1..Len(own) :
                      calls[own[m]].target = items[k].monitoringServerIds.ids[m]
            ELSE Len(own) <= 1

\* C18 witness: a finished run of a single-call item followed by a bulk item
\* with two targets.
C18_Witness ==
  /\ pc = "returned"
  /\ nItems = 2
  /\ Len(calls) = 4
  /\ calls[2].item = 1
  /\ calls[3].item = 2 /\ calls[3].target = items[2].monitoringServerIds.ids[1]
  /\ calls[4].item = 2 /\ calls[4].target = items[2].monitoringServerIds.ids[2]

\* ----------------------------------------------------- the options loader
Max(a, b) == IF a >= b THEN a ELSE b
Ceil(a, b) == (a + b - 1) \div b

\* The listing requests of the loader's log (its first call is the login).
Fetches == {n \in DOMAIN calls : n > 1}

\* The size of the collection and the page size the server applies to the
\* loader's requests.
T == Len(collection)
L == Min(limit, maxPageSize)

\* Fetch n was answered consistently: the records of the page asked for, and
\* metadata with the true total, the page asked for and the page size applied.
Consistent(n) ==
  /\ calls[n].ok
  /\ calls[n].meta = Pagination(T, calls[n].qs.page, L)
  /\ calls[n].result = ServerPage(calls[n].qs)

C12_FetchesBounded ==
  (\A n \in Fetches : calls[n].meta.present => calls[n].meta.total = T) =>
    Cardinality(Fetches) <= Max(1, Ceil(T, L))

\* C13: after each answered fetch the loader stops if and only if the response
\* has no pagination metadata or page * limit >= total on the page and limit it
\* sent; otherwise the next page is asked for.  Fetch n asks for page n.
C13_StopsOnOwnCursor ==
  \A n \in Fetches :
    LET qs == calls[n].qs
        meta == calls[n].meta
        stop == ~meta.present \/ qs.page * qs.limit >= meta.total
    IN /\ qs.page = n - 1
       /\ qs.limit = limit
       /\ calls[n].ok =>
            IF stop
              THEN n = Len(calls) /\ pc = "returned"
              ELSE n < Len(calls) \/ (pc = "fetch" /\ page = qs.page + 1)

\* ------------------------------------------------------------ the helpers
\* C15: for a service of an integer host id and an integer service id,
\* decoding the option value getServices wrote yields the same two ids, and
\* the acknowledge and downtime handlers that read the option address the
\* endpoint of exactly that host and service.
C15_CodecLossless ==
  fn = "getServices" /\ ret.returned /\ input.host.present =>
    /\ JSONparseMember(ret.value.value, "hostId") = Number(input.host.id)
    /\ JSONparseMember(ret.value.value, "serviceId") = Number(input.id)
    /\ addressed.handler \in {"executeServiceAck", "executeServiceDowntime"} =>
         /\ addressed.hostId = Number(input.host.id)
         /\ addressed.serviceId = Number(input.id)
         /\ addressed.path =
              IF addressed.handler = "executeServiceAck"
                THEN "/monitoring/hosts/{hostId}/services/{serviceId}/acknowledgements"
                ELSE "/monitoring/hosts/{hostId}/services/{serviceId}/downtimes"

\* C15 witness: the downtime handler has addressed service 11 of host -10
\* from the option written for them.
C15_Witness ==
  /\ fn = "getServices"
  /\ ret.returned
  /\ input.host.present
  /\ input.host.id = -10
  /\ input.id = 11
  /\ ret.value.value = <<"{", "\"", "hostId", "\"", ":", "-", "1", "0", ",",
                         "\"", "serviceId", "\"", ":", "1", "1", "}">>
  /\ addressed.handler = "executeServiceDowntime"

\* C19: formatMacros returns one entry per input macro, in the input's order:
\* entry k has the name, value and description of macro k and is_password
\* equal to its isPassword, and has these four fields only; macros of the
\* same name are all kept.
C19_FormatMacrosOneToOne ==
  fn = "formatMacros" /\ ret.returned =>
    /\ Len(ret.value) = Len(input)
    /\ \A k \in 1..Len(input) :
         /\ DOMAIN ret.value[k] = {"name", "value", "is_password", "description"}
         /\ ret.value[k].name = input[k].name
         /\ ret.value[k].value = input[k].value
         /\ ret.value[k].is_password = input[k].isPassword
         /\ ret.value[k].description = input[k].description

\* C19 witness: two macros of the same name, the first a password, both kept.
C19_Witness ==
  /\ fn = "formatMacros"
  /\ ret.returned
  /\ Len(input) = 2
  /\ input[1].name = input[2].name
  /\ input[1].isPassword /\ ~input[2].isPassword
  /\ Len(ret.value) = 2
  /\ ret.value[1].is_password /\ ~ret.value[2].is_password

\* C20: the request centreonRequest builds has the content-type header and
\* the token header with the token it was given, has a body exactly when the
\* descriptor has one (the descriptor's), and has query parameters exactly
\* when the descriptor has params (the descriptor's).
C20_RequestShape ==
  fn = "centreonRequest" /\ ret.returned =>
    LET r == ret.value
        o == input.options
    IN /\ DOMAIN r.headers = {"Content-Type", "X-AUTH-TOKEN"}
       /\ r.headers["Content-Type"] = "application/json"
       /\ r.headers["X-AUTH-TOKEN"] = input.token
       /\ "body" \in DOMAIN r <=> o.body # Undefined
       /\ "body" \in DOMAIN r => r["body"] = o.body
       /\ "qs" \in DOMAIN r <=> o.params # Undefined
       /\ "qs" \in DOMAIN r => r["qs"] = o.params

\* C20 witness: a request built from a descriptor with the empty body {} and
\* with params carries both.
C20_Witness ==
  /\ fn = "centreonRequest"
  /\ ret.returned
  /\ input.options.body = Object({})
  /\ input.options.params = Object({"comment"})
  /\ input.token = "tokenB"
  /\ ret.value["body"] = Object({})
  /\ ret.value["qs"] = Object({"comment"})
  /\ ret.value.headers["X-AUTH-TOKEN"] = "tokenB"

\* ------------------------------------------------------------- every call
\* C21: every call issued by a run of the node, by execute (its login and
\* every request of a handler) or by an options loader (its login and its
\* listing fetches), validates the server's certificate if and only if the
\* credential's ignoreSsl flag is off.
C21_TlsMirrorsIgnoreSsl ==
  \A n \in DOMAIN calls : calls[n].rejectUnauthorized <=> ~credentials.ignoreSsl

\* C21 witness: with ignoreSsl on, a finished run of execute has logged in and
\* called two bulk targets without validating the certificate.
C21_Witness ==
  /\ credentials.ignoreSsl
  /\ pc = "returned"
  /\ listingEndpoint = ""
  /\ Len(calls) = 3
  /\ calls[2].target # 0
  /\ \A n \in DOMAIN calls : ~calls[n].rejectUnauthorized

\* ---------------------------------------------------------- the dispatcher
\* The request of each catalog pair other than applyConfiguration.
Route(method, path) == [method |-> method, path |-> path]
Routes ==
  [pair \in Catalog \ {<<"monitoringServer", "applyConfiguration">>} |->
     CASE pair = <<"host", "list">> -> Route("GET", "/monitoring/hosts")
       [] pair = <<"host", "add">> -> Route("POST", "/configuration/hosts")
       [] pair = <<"host", "delete">> -> Route("DELETE", "/configuration/hosts/{hostId}")
       [] pair = <<"host", "ack">> ->
            Route("POST", "/monitoring/hosts/{hostId}/acknowledgements")
       [] pair = <<"host", "downtime">> -> Route("POST", "/monitoring/hosts/{hostId}/downtimes")
       [] pair = <<"service", "list">> -> Route("GET", "/monitoring/services")
       [] pair = <<"service", "add">> -> Route("POST", "/configuration/services")
       [] pair = <<"service", "delete">> ->
            Route("DELETE", "/configuration/services/{serviceId}")
       [] pair = <<"service", "ack">> ->
            Route("POST", "/monitoring/hosts/{hostId}/services/{serviceId}/acknowledgements")
       [] pair = <<"service", "downtime">> ->
            Route("POST", "/monitoring/hosts/{hostId}/services/{serviceId}/downtimes")
       [] OTHER -> Route("GET", "/configuration/monitoring-servers")]

\* C22: the pairs that are dispatched to a handler are exactly those of the
\* catalog: an item of a pair outside it issues no request; an item of a
\* catalog pair other than applyConfiguration issues no request when its
\* parameters are rejected and otherwise exactly one, with the method and path
\* of its pair; a bulk item issues generate-and-reload calls only.
C22_CatalogRoutes ==
  \A k \in 1..Len(items) :
    LET pair == <<items[k].resource, items[k].operation>>
        own == CallsOf(k)
    IN CASE pair \notin Catalog -> own = <<>>
         [] IsApply(items[k]) ->
              \A m \in 1..Len(own) :
                /\ calls[own[m]].method = "POST"
                /\ calls[own[m]].path =
                     "/configuration/monitoring-servers/{monitoringServerId}/generate-and-reload"
         [] OTHER ->
              IF ThrowsAtOnce(items[k])
                THEN own = <<>>
                ELSE /\ Len(own) = 1
                     /\ calls[own[1]].method = Routes[pair].method
                     /\ calls[own[1]].path = Routes[pair].path
                     /\ calls[own[1]].target = 0

\* C22 witness: a host delete item has issued its one request, DELETE on the
\* host's configuration path, and the run has returned its payload.
C22_Witness ==
  /\ pc = "returned"
  /\ Len(items) = 1
  /\ items[1].resource = "host" /\ items[1].operation = "delete"
  /\ Len(calls) = 2
  /\ calls[2].method = "DELETE"
  /\ calls[2].path = "/configuration/hosts/{hostId}"
  /\ output = <<[json |-> PayloadEntry(2)]>>

\* ------------------------------------------------------ the list handlers
\* The like-clauses on a name that the parameters of a request hold.
NameClauses(params) ==
  {<<p, c>> \in (DOMAIN params) \X (1..2) :
     /\ params[p].key = "search"
     /\ c <= Len(params[p].and)
     /\ params[p].and[c].op = "$lk"
     /\ params[p].and[c].field \in {"host.name", "service.name", "name"}}

\* C23: the request of each of the three list operations carries, for a
\* non-empty name pattern, exactly one search parameter, whose expression has
\* a like-clause on the name with that pattern; for an empty pattern no
\* like-clause on the name; and for a limit of at least 1 exactly one limit
\* parameter, with that limit.
C23_ListFilterAndLimit ==
  fn = "list" /\ ret.returned =>
    LET params == ret.value.params
        searches == {p \in DOMAIN params : params[p].key = "search"}
        limits == {p \in DOMAIN params : params[p].key = "limit"}
    IN /\ input.filterName # "" =>
            /\ Cardinality(searches) = 1
            /\ \E pc1 \in NameClauses(params) :
                 params[pc1[1]].and[pc1[2]].pattern = input.filterName
       /\ input.filterName = "" => NameClauses(params) = {}
       /\ input.limit >= 1 =>
            /\ Cardinality(limits) = 1
            /\ \A p \in limits : params[p].n = input.limit

\* ---------------------------------------------------- the services loader
\* The option value owed for a service: the encoded (host id, service id) pair.
EncodedPair(service) ==
  JSONstringify(<<[key |-> "hostId", value |-> Number(service.host.id)],
                  [key |-> "serviceId", value |-> Number(service.id)]>>)

\* C24: a finished run of getServices against a server that answered its
\* fetches with the page they asked for has logged in once, first, and has
\* returned one option per service the server holds, in the server's order,
\* each valued with the encoded pair of its host id and service id.
C24_ServicesLoaderCoversAll ==
  /\ listingEndpoint = "/monitoring/services"
  /\ pc = "returned"
  /\ \A n \in Fetches : calls[n].ok /\ calls[n].array /\ calls[n].result = ServicesPage(calls[n].qs)
  => /\ calls[1].path = "/login"
     /\ \A n \in Fetches : calls[n].path = "/monitoring/services" /\ calls[n].token = token
     /\ Len(options) = Len(Services)
     /\ \A k \in 1..Len(options) :
          k <= Len(Services) => options[k].value = EncodedPair(Services[k])

\* ---------------------------------------------------------------- no retry
\* The login calls of the log.
Logins == {n \in DOMAIN calls : calls[n].path = "/login"}

\* C25: no call is issued twice.  A run of execute issues one login at most,
\* one request at most for an item other than a bulk one, and one
\* generate-and-reload call at most for each target of a bulk item; a run of a
\* loader issues one login at most, fetchFromCentreon asks for each page once
\* at most and getServices fetches once at most; a failed call is the last
\* call of its item, target or page.
C25_NoRetry ==
  /\ Cardinality(Logins) <= 1
  /\ \A n \in Logins : n = 1
  /\ listingEndpoint = "" =>
       /\ \A k \in 1..Len(items) : ~IsApply(items[k]) => Len(CallsOf(k)) <= 1
       /\ \A n, m \in DOMAIN calls :
            n > 1 /\ m > n /\ calls[n].item = calls[m].item =>
              /\ calls[n].target # 0
              /\ calls[n].target # calls[m].target
  /\ listingEndpoint = "/monitoring/services" => Cardinality(Fetches) <= 1
  /\ listingEndpoint \notin {"", "/monitoring/services"} =>
       \A n, m \in Fetches : m > n => calls[m].qs.page > calls[n].qs.page

\* C25 witness: with continue-on-fail on, the call for the first of two
\* targets failed, the second target was called next, and the run returned
\* after these two calls.
C25_Witness ==
  /\ listingEndpoint = ""
  /\ continueOnFail
  /\ pc = "returned"
  /\ Len(calls) = 3
  /\ calls[2].target # 0 /\ ~calls[2].ok
  /\ calls[3].target # 0 /\ calls[3].target # calls[2].target

\* ------------------------------------------------------- item independence
\* The result owed to item k by its own parameters and the answers to its own
\* calls: the error of its rejected parameters, the records of its targets,
\* the payload or the upstream error of its one request.
ResultOf(k) ==
  LET it == items[k] IN
  CASE ValidationFails(it) -> ErrorEntry(ValidationError(it).message)
    [] IsDowntime(it) /\ (toIsoUtcThrows(it.startTime) \/ toIsoUtcThrows(it.endTime)) ->
         ErrorEntry(RangeError.message)
    [] it.operation = UnknownOperation ->
         ErrorEntry(Message("Unknown operation: ", it.operation))
    [] IsApply(it) ->
         LET own == CallsOf(k) IN BulkEntry([m \in 1..Len(own) |-> TargetRecord(own[m])])
    [] OTHER ->
         LET n == CHOOSE n \in DOMAIN calls : calls[n].item = k IN
         IF calls[n].ok THEN PayloadEntry(n) ELSE ErrorEntry(UpstreamMessage(n))

\* C26: with continue-on-fail on, the entry recorded for each handled item of
\* a known resource is the result owed to it by its own parameters and the
\* answers to its own calls, whatever the items before it did; and once the
\* login is done no step changes the token, the settings the handlers read,
\* or the parameters of an item already read.
C26_ItemsIndependent ==
  /\ [](continueOnFail =>
          \A k \in 1..Len(items) :
            k < i /\ items[k].resource \in Resources =>
              returnData[Position(k)] = ResultOf(k))
  /\ [][pc # "auth" =>
          /\ token' = token
          /\ continueOnFail' = continueOnFail
          /\ tz' = tz
          /\ credentials' = credentials
          /\ SubSeq(items', 1, Len(items)) = items
          /\ pc' = "bulk" /\ pc = "loop" => results' = <<>>]_vars

\* C26 witness: with continue-on-fail on, the first item failed on its
\* request and the bulk item after it has its two target records, both
\* successes, as its result.
C26_Witness ==
  /\ continueOnFail
  /\ pc = "returned"
  /\ nItems = 2
  /\ Len(output) = 2
  /\ ~IsApply(items[1])
  /\ output[1].json = ErrorEntry(UpstreamMessage(2))
  /\ IsApply(items[2])
  /\ Len(items[2].monitoringServerIds.ids) = 2
  /\ output[2].json =
       BulkEntry(<<TargetSuccess(items[2].monitoringServerIds.ids[1], 3),
                   TargetSuccess(items[2].monitoringServerIds.ids[2], 4)>>)

\* -------------------------------------------------------------- append-only
\* list' is list, or list with one element appended.
AppendedTo(list, next) ==
  /\ Len(next) \in {Len(list), Len(list) + 1}
  /\ SubSeq(next, 1, Len(list)) = list

\* C27: every step leaves returnData as it was or appends one entry to it,
\* and leaves the results of the running bulk operation as they were or
\* appends one record to them; the only other change of results is the empty
\* list a bulk operation starts with.  What execute returns is returnData,
\* entry by entry.
C27_AppendOnly ==
  /\ [][/\ AppendedTo(returnData, returnData')
        /\ \/ AppendedTo(results, results')
           \/ pc = "loop" /\ pc' = "bulk" /\ results' = <<>>]_vars
  /\ [](pc = "returned" /\ listingEndpoint = "" =>
          output = [k \in 1..Len(returnData) |-> [json |-> returnData[k]]])

\* C27 witness: a returned run whose two entries were appended in turn, the
\* second holding the two records appended by a bulk operation.
C27_Witness ==
  /\ pc = "returned"
  /\ Len(returnData) = 2
  /\ returnData[1].shape = "payload"
  /\ returnData[2].shape = "bulk"
  /\ Len(returnData[2].results) = 2
  /\ returnData[2].results = results
  /\ Len(output) = 2

\* ------------------------------------------------- the login of the loaders
\* C28: a run of an options loader (fetchFromCentreon or getServices) has
\* issued nothing before its login, and after it exactly one login call, as
\* its first call; every later call is a fetch of the listing that carries
\* the token the login returned; and when the login was answered without a
\* token the run has failed with the authentication error after that one call.
C28_LoaderLoginFirst ==
  /\ pc = "login" => calls = <<>>
  /\ pc # "login" =>
       /\ Len(calls) >= 1
       /\ calls[1].path = "/login" /\ calls[1].method = "POST"
       /\ \A n \in Fetches :
            /\ calls[n].path = listingEndpoint
            /\ calls[n].path # "/login"
            /\ calls[n].method = "GET"
            /\ calls[n].token = token
            /\ token \in sessions
            /\ calls[1].ok
       /\ calls[1].ok /\ token = NoToken =>
            /\ pc = "thrown"
            /\ Fetches = {}
            /\ options = <<>>
            /\ error \in {NodeOperationError("Cannot authenticate to Centreon", ""),
                          NodeApiError("Failed to authenticate to Centreon")}

\* C28 witness: a finished run of fetchFromCentreon whose two fetches, after
\* the login, both carried the login's token.
C28_Witness ==
  /\ pc = "returned"
  /\ listingEndpoint = "/configuration/hosts"
  /\ Len(calls) = 3
  /\ calls[1].path = "/login"
  /\ calls[2].token = "tokenA" /\ calls[2].qs.page = 1
  /\ calls[3].token = "tokenA" /\ calls[3].qs.page = 2

\* ------------------------------------------------------------ login failure
\* C29: once the login of execute has failed, by a failed call or by an answer
\* without token, execute has thrown that failure, whatever the
\* continue-on-fail setting: the login is the only call, no item was read, no
\* entry, not even an error record, was collected and nothing was returned.
C29_LoginFailureAborts ==
  pc # "auth" /\ token = NoToken =>
    /\ pc = "thrown"
    /\ error = IF calls[1].ok THEN NodeOperationError("Authentication failed", "")
               ELSE RequestError(1)
    /\ Len(calls) = 1
    /\ items = <<>>
    /\ i = 1
    /\ returnData = <<>>
    /\ output = <<>>

\* C29 witness: with continue-on-fail on and an item waiting, the login call
\* failed and the run has thrown.
C29_Witness ==
  /\ continueOnFail
  /\ nItems >= 1
  /\ pc = "thrown"
  /\ Len(calls) = 1
  /\ ~calls[1].ok
  /\ error = RequestError(1)
  /\ returnData = <<>>

\* ------------------------------------------------------ whole bulk results
\* The targets of the records of a per-target list, in its order.
TargetsOf(list) == [m \in 1..Len(list) |-> list[m].monitoring_server_id]

\* C30: every bulk result collected, and every one returned, is that of a
\* handled bulk item and holds one record per target of that item, in the
\* order of its target list; a bulk run stopped by a failed target has thrown
\* and left no bulk result for its item, and nothing is returned.
C30_BulkResultWhole ==
  /\ \A e \in DOMAIN returnData :
       returnData[e].shape = "bulk" =>
         \E k \in 1..Len(items) :
           /\ k < i
           /\ IsApply(items[k])
           /\ e = Position(k)
           /\ TargetsOf(returnData[e].results) = items[k].monitoringServerIds.ids
  /\ \A e \in DOMAIN output :
       /\ e <= Len(returnData)
       /\ output[e].json = returnData[e]
  /\ \A n \in DOMAIN calls :
       calls[n].target # 0 /\ ~calls[n].ok /\ ~continueOnFail =>
         /\ pc = "thrown"
         /\ output = <<>>
         /\ \A e \in DOMAIN returnData : returnData[e].shape # "bulk" \/ e < Position(calls[n].item)

\* C30 witness: a returned bulk result over two targets, the first succeeded
\* and the second failed: one record for each, in the order of the target list.
C30_Witness ==
  /\ pc = "returned"
  /\ Len(output) = 1
  /\ output[1].json.shape = "bulk"
  /\ Len(items[1].monitoringServerIds.ids) = 2
  /\ TargetsOf(output[1].json.results) = items[1].monitoringServerIds.ids
  /\ output[1].json.results[1].status = "success"
  /\ output[1].json.results[2].status = "error"

\* ------------------------------------- bulk items under continue-on-fail
\* The failed calls among the calls of item k.
FailedOf(k) == {m \in 1..Len(CallsOf(k)) : ~calls[CallsOf(k)[m]].ok}

RECURSIVE Fetched(_)
Fetched(n) ==
  IF n = 0 THEN <<>>
  ELSE Fetched(n - 1) \o (IF calls[n].method = "GET" /\ calls[n].ok
                            THEN calls[n].result ELSE <<>>)

\* C32: the records the loader holds are the concatenation, in fetch order,
\* of the records of every page it fetched; what it returns is one option per
\* such record, in that order, named by the record's name and valued by its
\* id, the records of the page that met the stop condition included; a failed
\* page fetch is the last request, the loader has raised its error and no
\* option is returned.
C32_OptionsAreThePages ==
  /\ allItems = Fetched(Len(calls))
  /\ pc = "returned" =>
       /\ Len(options) = Len(Fetched(Len(calls)))
       /\ \A k \in DOMAIN options :
            /\ options[k].name = Fetched(Len(calls))[k].name
            /\ options[k].value = Fetched(Len(calls))[k].id
       /\ calls[Len(calls)].method = "GET"
       /\ calls[Len(calls)].ok
       /\ Break(calls[Len(calls)].meta)
       /\ \A n \in 2..(Len(calls) - 1) : ~Break(calls[n].meta)
  /\ \A n \in DOMAIN calls :
       ~calls[n].ok =>
         /\ n = Len(calls)
         /\ pc = "thrown"
         /\ error = RequestError(n)
         /\ options = <<>>
  /\ pc # "returned" => options = <<>>

\* C32 witness: three records served in pages of two: two pages were fetched,
\* the second met the stop condition, and the three options returned are those
\* of the two pages in order.
C32_Witness ==
  /\ pc = "returned"
  /\ Len(collection) = 3
  /\ Len(calls) = 3
  /\ calls[2].result = SubSeq(collection, 1, 2)
  /\ calls[3].result = SubSeq(collection, 3, 3)
  /\ options = OptionsOf(collection)
  /\ options[3] = [name |-> <<"name", 3>>, value |-> 3]

====
